---- MODULE Spec2Model ----
(***************************************************************************)
(* A model of the pythonlib toolkit: the widgets and mixins of qt.py and   *)
(* the helpers of common.py they rest on.  Every component is a small      *)
(* state machine of its own; a specification per component explores one    *)
(* component while the others stay as constructed.                         *)
(***************************************************************************)
EXTENDS Integers, Sequences, FiniteSets, Bags, TLC

VARIABLES
    \* ---- ExclusiveCheckBox (qt.py 640-673)
    exclusive_group,    \* box -> its _exclusive_group (NoGroup is None)
    always_one_active,  \* box -> its _always_one_active
    exclusives,         \* group -> the members of _exclusives[group], in iteration order
    connected,          \* box -> clicked is connected to checkExclusive
    checked,            \* box -> isChecked()
    lastClicked,        \* the box of the last click, 0 when the last operation was no click
    preClick,           \* isChecked() of every box right before the last click
    \* ---- SystrayMixin (qt.py 447-504)
    trayVisible,        \* trayicon.isVisible()
    windowVisible,      \* the window is shown
    trayFlag,           \* settings.value('tray_showed_quitmessage')
    messages,           \* 'Minimise to System Tray' boxes displayed so far
    running,            \* the main application has not quit
    quitTriggered,      \* the tray menu's Quit action was triggered in this run
    closeState,         \* "none", or how the last operation, a close event, ended
    closes,             \* close events so far
    trayCloses,         \* close events with a visible tray icon so far
    sessions,           \* runs of the application so far
    \* ---- RowLayout (qt.py 89-299)
    widgets,            \* the items created by the add* calls, in creation order
    tracked,            \* kind -> the tracking list of the kind (labels, fields, ...)
    rowOp,              \* the last operation on the row, rowArg its argument
    rowArg,
    data,               \* what the last getValues that returned gave
    snapshot,           \* the widgets' values when getValues was last called
    raised,             \* the exception the last operation ended with, or "none"
    \* ---- common.string2bool (common.py 54-68)
    s2bCall,            \* the last call: its arguments and what it returned, or NoCall
    \* ---- CollapsibleGroupBox (qt.py 317-358)
    cgbOrig,            \* the title given to __init__
    cgbPrefix,          \* the prefix attribute: collapsed -> text
    cgbTitle,           \* title()
    cgbFlat,            \* isFlat()
    cgbCollapsed,       \* the collapsed attribute
    cgbLast,            \* the argument of the last on_toggle: "True", "False", or "none"
    \* ---- BaseMixin (qt.py 27-65)
    winOpen,            \* the window exists and has loaded its settings
    winPos,             \* the window's position and size in its normal state
    winSize,
    winMaximized,       \* isMaximized()
    winFullScreen,      \* isFullScreen()
    store,              \* the 'mainWindow' group of the settings store
    baseOp,             \* the last operation on the window
    atClose,            \* the window's flags at the last closeEvent
    normalClose,        \* position and size at the last closeEvent in the normal state
    \* ---- common.Enum (common.py 153-165)
    enum,               \* the Enum object: enum_list as given to __init__, pos the
                        \* index (from 0) of the element the cycle yields next,
                        \* call the last call of next, hung when it never returns
    \* ---- common.memoize_single, common.memoize_several (common.py 183-204)
    memo,               \* the wrapper: kind "single" or "several"; cache the
                        \* memodict; invoked and raised the bags of the argument
                        \* tuples f was invoked with and raised for; first what f
                        \* first returned for each; call the last call; calls
    \* ---- BetterLineEdit (qt.py 540-637)
    ble,                \* the widget: validator, _singlestep, _accelerated,
                        \* _accelerated_rate, _accelerated_timer; now is
                        \* time.time(), held the key held down, holdStart the time
                        \* of the fresh press of the hold, event the last event
    \* ---- iopath.pause_services, iopath.pause_processes (iopath.py 177-207)
    pause               \* the with statement: kind "services" or "processes",
                        \* platform, admin, targets; pc "call", "body", "left" or
                        \* "raised"; issued the commands given to Popen, in order

exclVars == <<exclusive_group, always_one_active, exclusives, connected, checked,
              lastClicked, preClick>>

trayVars == <<trayVisible, windowVisible, trayFlag, messages, running, quitTriggered,
              closeState, closes, trayCloses, sessions>>

rowVars == <<widgets, tracked, rowOp, rowArg, data, snapshot, raised>>

s2bVars == <<s2bCall>>

cgbVars == <<cgbOrig, cgbPrefix, cgbTitle, cgbFlat, cgbCollapsed, cgbLast>>

baseVars == <<winOpen, winPos, winSize, winMaximized, winFullScreen, store, baseOp,
              atClose, normalClose>>

\* The helpers outside qt.py, and the BetterLineEdit widget.
libVars == <<enum, memo, pause>>
bleVars == <<ble>>

vars == <<exclVars, trayVars, rowVars, s2bVars, cgbVars, baseVars, libVars, bleVars>>

\* What the operations of one component leave alone.
exclRest == <<trayVars, rowVars, s2bVars, cgbVars, baseVars, libVars, bleVars>>
trayRest == <<exclVars, rowVars, s2bVars, cgbVars, baseVars, libVars, bleVars>>
rowRest == <<exclVars, trayVars, s2bVars, cgbVars, baseVars, libVars, bleVars>>
s2bRest == <<exclVars, trayVars, rowVars, cgbVars, baseVars, libVars, bleVars>>
cgbRest == <<exclVars, trayVars, rowVars, s2bVars, baseVars, libVars, bleVars>>
baseRest == <<exclVars, trayVars, rowVars, s2bVars, cgbVars, libVars, bleVars>>
qtVars == <<exclVars, trayVars, rowVars, s2bVars, cgbVars, baseVars>>
enumRest == <<qtVars, memo, pause, ble>>
memoRest == <<qtVars, enum, pause, ble>>
pauseRest == <<qtVars, enum, memo, ble>>
bleRest == <<qtVars, libVars>>

(***************************************************************************)
(* Bounds                                                                  *)
(***************************************************************************)
NumBoxes == 3
MaxCloses == 4
MaxSessions == 3
MaxWidgets == 3
MaxTitleLen == 8
MaxEnumLen == 3
MaxMemoCalls == 4
MaxClock == 6
MaxSingleStep == 2
MaxTargets == 2

\* ------------------------------------------------------------------------
\* Generic helpers
\* ------------------------------------------------------------------------
Range(s) == {s[i] : i \in 1..Len(s)}

\* Every ordering of a finite set, as sequences without repetition.
Orderings(S) ==
    {s \in [1..Cardinality(S) -> S] : \A i, j \in 1..Cardinality(S) : s[i] = s[j] => i = j}

\* ------------------------------------------------------------------------
\* Python values: None, a bool, or a str (a sequence of characters)
\* ------------------------------------------------------------------------
PyNone == [t |-> "NoneType", b |-> FALSE, s |-> <<>>, n |-> 0]
PyBool(b) == [t |-> "bool", b |-> b, s |-> <<>>, n |-> 0]
PyStr(s) == [t |-> "str", b |-> FALSE, s |-> s, n |-> 0]
PyInt(n) == [t |-> "int", b |-> FALSE, s |-> <<>>, n |-> n]

\* The truth value Python gives v in `if v` / `not v`.
Truthy(v) ==
    CASE v.t = "NoneType" -> FALSE
      [] v.t = "bool" -> v.b
      [] v.t = "str" -> v.s # <<>>
      [] v.t = "int" -> v.n # 0

\* What a settings store gives back in a later run for a value written in an
\* earlier one: a bool comes back as the text 'true' or 'false'.
Stored(v) ==
    IF v.t = "bool"
    THEN PyStr(IF v.b THEN <<"t", "r", "u", "e">> ELSE <<"f", "a", "l", "s", "e">>)
    ELSE v

\* str.upper() and str.lower() on one character.
Uppers == ("t" :> "T") @@ ("r" :> "R") @@ ("u" :> "U") @@ ("e" :> "E") @@ ("f" :> "F")
          @@ ("a" :> "A") @@ ("l" :> "L") @@ ("s" :> "S")
Lowers == ("T" :> "t") @@ ("R" :> "r") @@ ("U" :> "u") @@ ("E" :> "e") @@ ("F" :> "f")
          @@ ("A" :> "a") @@ ("L" :> "l") @@ ("S" :> "s")
Upper(c) == IF c \in DOMAIN Uppers THEN Uppers[c] ELSE c
Lower(c) == IF c \in DOMAIN Lowers THEN Lowers[c] ELSE c

\* str.capitalize(): the first character upper case, the others lower case.
Capitalize(s) == [i \in 1..Len(s) |-> IF i = 1 THEN Upper(s[i]) ELSE Lower(s[i])]

TrueText == <<"T", "r", "u", "e">>
FalseText == <<"F", "a", "l", "s", "e">>

\* ------------------------------------------------------------------------
\* common.string2bool
\* ------------------------------------------------------------------------
\* A plausible slip: strict mode answers for 'False'.
String2BoolStrictFalse(string, strict) ==
    IF string.t # "str" THEN string
    ELSE IF strict THEN PyBool(Capitalize(string.s) = FalseText)
    ELSE IF Capitalize(string.s) = TrueText THEN PyBool(FALSE)
    ELSE IF Capitalize(string.s) = FalseText THEN PyBool(TRUE)
    ELSE string

\* string2bool(string, strict): anything but a str is returned as it is.
String2Bool(string, strict) ==
    IF string.t # "str" THEN string
    ELSE IF strict THEN PyBool(Capitalize(string.s) = TrueText)
    ELSE IF Capitalize(string.s) = TrueText THEN PyBool(FALSE)
    ELSE IF Capitalize(string.s) = FalseText THEN PyBool(TRUE)
    ELSE string

\* The texts that differ from word in the case of their letters only.
CaseVariants(word) ==
    {s \in [1..Len(word) -> {Upper(c) : c \in Range(word)} \cup {Lower(c) : c \in Range(word)}] :
        \A i \in 1..Len(word) : Lower(s[i]) = Lower(word[i])}

\* The arguments string2bool is called with.
S2bArgs ==
    {PyStr(s) : s \in CaseVariants(TrueText) \cup CaseVariants(FalseText)}
    \cup {PyStr(s) : s \in {<<>>, <<"1">>, <<"0">>, <<"t">>, <<"t", "r", "u">>,
                             <<"t", "r", "u", "e", "e">>, <<"f", "a", "l", "s">>,
                             <<"T", "r", "u", "e", " ">>}}
    \cup {PyNone, PyBool(TRUE), PyBool(FALSE), PyInt(0), PyInt(1)}

NoCall == [called |-> FALSE, string |-> PyNone, strict |-> TRUE, result |-> PyNone]

S2bInit == s2bCall = NoCall

\* One call string2bool(string, strict).
S2bCall(string, strict) ==
    /\ s2bCall' = [called |-> TRUE, string |-> string, strict |-> strict,
                   result |-> String2Bool(string, strict)]
    /\ UNCHANGED s2bRest

NextS2b == \E string \in S2bArgs, strict \in BOOLEAN : S2bCall(string, strict)

\* ------------------------------------------------------------------------
\* common.Enum: itertools.cycle over a list, and next(current)
\* ------------------------------------------------------------------------
\* Consume the cycle from position pos (0-based index of the element the
\* iterator yields next) until x has been yielded; the result is the position
\* after x, or -1 when x is never yielded (the scan of a cycle never ends).
RECURSIVE CycleSeek(_, _, _, _)
CycleSeek(list, pos, x, fuel) ==
    IF fuel = 0 THEN -1
    ELSE IF list[pos + 1] = x THEN (pos + 1) % Len(list)
    ELSE CycleSeek(list, (pos + 1) % Len(list), x, fuel - 1)

\* A plausible slip: the loop returns the element it found, not the one after.
EnumNextFound(list, pos, current) ==
    IF list = <<>> THEN [kind |-> "StopIteration", value |-> 0, pos |-> 0]
    ELSE LET p1 == CycleSeek(list, pos, current, Len(list)) IN
         IF p1 = -1 THEN [kind |-> "hang", value |-> 0, pos |-> 0]
         ELSE LET p2 == CycleSeek(list, p1, current, Len(list)) IN
              [kind |-> "value", value |-> current, pos |-> p2]

\* A plausible slip: the element the cycle yields next, whatever current is.
EnumNextFromPos(list, pos, current) ==
    IF list = <<>> THEN [kind |-> "StopIteration", value |-> 0, pos |-> 0]
    ELSE [kind |-> "value", value |-> list[pos + 1], pos |-> (pos + 1) % Len(list)]

\* Enum.next(current) on a cycle at position pos.  `current not in cycle`
\* consumes the cycle up to current; the for loop consumes it up to current
\* again; next() yields the element after it.
EnumNext(list, pos, current) ==
    IF list = <<>> THEN [kind |-> "StopIteration", value |-> 0, pos |-> 0]
    ELSE LET p1 == CycleSeek(list, pos, current, Len(list)) IN
         IF p1 = -1 THEN [kind |-> "hang", value |-> 0, pos |-> 0]
         ELSE LET p2 == CycleSeek(list, p1, current, Len(list)) IN
              [kind |-> "value", value |-> list[p2 + 1], pos |-> (p2 + 1) % Len(list)]

\* An Enum object and the calls of next on it.  The elements are numbers;
\* EnumNone stands for None, the default of current, which is no element.
EnumElems == 1..MaxEnumLen
EnumNone == 0
EnumLists == UNION {Orderings(S) : S \in SUBSET EnumElems}
NoEnumCall == [called |-> FALSE, current |-> EnumNone, prePos |-> 0,
               kind |-> "none", value |-> 0]

\* Enum(enum_list): a fresh cycle, nothing consumed.
EnumConstructed(list) ==
    enum = [enum_list |-> list, pos |-> 0, call |-> NoEnumCall, hung |-> FALSE]

EnumInit == \E list \in EnumLists : EnumConstructed(list)
EnumIdle == EnumConstructed(<<>>)

\* enum.next(current).  A call that returns leaves the cycle after the element
\* it returned; StopIteration (an empty list) leaves it where it was; a scan
\* for an element the list does not hold never returns.
EnumNextCall(current) ==
    /\ ~enum.hung
    /\ LET r == EnumNext(enum.enum_list, enum.pos, current) IN
       enum' = [enum EXCEPT
                  !.call = [called |-> TRUE, current |-> current, prePos |-> enum.pos,
                            kind |-> r.kind, value |-> r.value],
                  !.pos = IF r.kind = "value" THEN r.pos ELSE @,
                  !.hung = (r.kind = "hang")]
    /\ UNCHANGED enumRest

NextEnum == \E current \in EnumElems \cup {EnumNone} : EnumNextCall(current)

\* ------------------------------------------------------------------------
\* common.memoize_single and common.memoize_several
\* ------------------------------------------------------------------------
\* The wrapped function f is any function: what an invocation returns is not
\* determined by its arguments, and an invocation may raise.  The memodict is
\* keyed by the tuple of the call's arguments; memoize_single takes exactly
\* one argument and keys the memodict by it.
MemoArgs == {"a", "b"}
MemoValues == {"u", "v"}
Missing == "missing"
Raises == "raises"
MemoKeys == {<<x>> : x \in MemoArgs} \cup {<<x, y>> : x, y \in MemoArgs}
EmptyDict == [key \in {} |-> Missing]
NoMemoCall == [called |-> FALSE, key |-> <<>>, kind |-> "none", value |-> Missing,
               invoked |-> FALSE, preCache |-> EmptyDict]

\* dict.get(key, Missing)
Lookup(dict, key) == IF key \in DOMAIN dict THEN dict[key] ELSE Missing

\* A plausible slip: __missing__ returns f's value without storing it.
MemoGetNoStore(cache, key, outcome) ==
    IF key \in DOMAIN cache
    THEN [kind |-> "return", value |-> cache[key], cache |-> cache, invoked |-> FALSE]
    ELSE IF outcome = Raises
    THEN [kind |-> "raise", value |-> Missing, cache |-> cache, invoked |-> TRUE]
    ELSE [kind |-> "return", value |-> outcome, cache |-> cache, invoked |-> TRUE]

\* memodict[key]: the stored value when there is one; otherwise __missing__
\* invokes f, and stores and returns what it returned.  outcome is what the
\* invocation of f would do.
MemoGet(cache, key, outcome) ==
    IF key \in DOMAIN cache
    THEN [kind |-> "return", value |-> cache[key], cache |-> cache, invoked |-> FALSE]
    ELSE IF outcome = Raises
    THEN [kind |-> "raise", value |-> Missing, cache |-> cache, invoked |-> TRUE]
    ELSE [kind |-> "return", value |-> outcome,
          cache |-> cache @@ (key :> outcome), invoked |-> TRUE]

\* memoize_single(f) or memoize_several(f): an empty memodict.
MemoDecorated(kind) ==
    memo = [kind |-> kind, cache |-> EmptyDict, invoked |-> EmptyBag,
            raised |-> EmptyBag, first |-> EmptyDict, call |-> NoMemoCall, calls |-> 0]

MemoInit == \E kind \in {"single", "several"} : MemoDecorated(kind)
MemoIdle == MemoDecorated("single")

\* wrapper(*key).  The bound method memodict().__getitem__ of memoize_single
\* takes one argument only: any other number is a TypeError before the
\* memodict is looked at.
MemoCall(key, outcome) ==
    /\ memo.calls < MaxMemoCalls
    /\ IF memo.kind = "single" /\ Len(key) # 1
       THEN memo' = [memo EXCEPT
                       !.calls = @ + 1,
                       !.call = [called |-> TRUE, key |-> key, kind |-> "TypeError",
                                 value |-> Missing, invoked |-> FALSE,
                                 preCache |-> memo.cache]]
       ELSE LET r == MemoGet(memo.cache, key, outcome) IN
            memo' = [memo EXCEPT
                       !.calls = @ + 1,
                       !.call = [called |-> TRUE, key |-> key, kind |-> r.kind,
                                 value |-> r.value, invoked |-> r.invoked,
                                 preCache |-> memo.cache],
                       !.cache = r.cache,
                       !.invoked = IF r.invoked THEN @ (+) SetToBag({key}) ELSE @,
                       !.raised = IF r.kind = "raise" THEN @ (+) SetToBag({key}) ELSE @,
                       !.first = IF r.invoked /\ r.kind = "return" /\ key \notin DOMAIN @
                                 THEN @ @@ (key :> r.value) ELSE @]
    /\ UNCHANGED memoRest

NextMemo == \E key \in MemoKeys, outcome \in MemoValues \cup {Raises} : MemoCall(key, outcome)

\* ------------------------------------------------------------------------
\* iopath.pause_services and iopath.pause_processes
\* ------------------------------------------------------------------------
\* Both are generator functions under contextlib.contextmanager: entering the
\* with statement runs the generator up to its yield; leaving it normally
\* resumes the generator after the yield; leaving it by an exception raises
\* the exception inside the generator at the yield.
Platforms == {"win32", "cygwin", "linux"}
TargetNames == {"t1", "t2", "t3"}
TargetLists == UNION {[1..n -> TargetNames] : n \in 0..MaxTargets}

\* One Popen per target, in the order of the list.
Commands(command, list) == [i \in 1..Len(list) |-> [command |-> command, target |-> list[i]]]

\* The commands before the yield.
Suspend(kind, plat, isAdmin, list) ==
    IF kind = "services"
    THEN IF plat = "win32" /\ isAdmin THEN Commands("net stop", list) ELSE <<>>
    ELSE IF plat \in {"Windows", "win32", "cygwin"}
         THEN Commands("pssuspend", list)
         ELSE Commands("pkill -TSTP", list)

\* The commands after the yield.
Resume(kind, plat, isAdmin, list) ==
    IF kind = "services"
    THEN IF plat = "win32" /\ isAdmin THEN Commands("net start", list) ELSE <<>>
    ELSE IF plat \in {"Windows", "win32", "cygwin"}
         THEN Commands("pssuspend -r", list)
         ELSE Commands("pkill -CONT", list)

\* What the generator does when the exception of the body is raised at its
\* yield: there is no try around the yield, so the exception leaves the
\* generator at once and nothing after the yield runs.
ResumeOnException(kind, plat, isAdmin, list) == <<>>

PauseCalled(kind, plat, isAdmin, list) ==
    pause = [kind |-> kind, platform |-> plat, admin |-> isAdmin, targets |-> list,
             pc |-> "call", issued |-> <<>>]

PauseInit ==
    \E kind \in {"services", "processes"}, plat \in Platforms, isAdmin \in BOOLEAN,
       list \in TargetLists : PauseCalled(kind, plat, isAdmin, list)

PauseIdle == PauseCalled("services", "linux", FALSE, <<>>)

\* with pause_...(targets): __enter__ runs the generator up to the yield.
Enter ==
    /\ pause.pc = "call"
    /\ pause' = [pause EXCEPT
                   !.issued = @ \o Suspend(pause.kind, pause.platform, pause.admin,
                                           pause.targets),
                   !.pc = "body"]
    /\ UNCHANGED pauseRest

\* The body completes: __exit__ resumes the generator after the yield.
BodyReturns ==
    /\ pause.pc = "body"
    /\ pause' = [pause EXCEPT
                   !.issued = @ \o Resume(pause.kind, pause.platform, pause.admin,
                                          pause.targets),
                   !.pc = "left"]
    /\ UNCHANGED pauseRest

\* The body raises: __exit__ throws the exception into the generator.
BodyRaises ==
    /\ pause.pc = "body"
    /\ pause' = [pause EXCEPT
                   !.issued = @ \o ResumeOnException(pause.kind, pause.platform,
                                                     pause.admin, pause.targets),
                   !.pc = "raised"]
    /\ UNCHANGED pauseRest

NextPause == Enter \/ BodyReturns \/ BodyRaises

\* ------------------------------------------------------------------------
\* ExclusiveCheckBox
\* ------------------------------------------------------------------------
Boxes == 1..NumBoxes
Groups == {"g1", "g2"}
NoGroup == "None"

\* ExclusiveCheckBox.__init__ with the default arguments, for every box.
ExclInit ==
    /\ exclusive_group = [c \in Boxes |-> NoGroup]
    /\ always_one_active = [c \in Boxes |-> FALSE]
    /\ exclusives = [g \in Groups |-> <<>>]
    /\ connected = [c \in Boxes |-> FALSE]
    /\ checked = [c \in Boxes |-> FALSE]
    /\ lastClicked = 0
    /\ preClick = [c \in Boxes |-> FALSE]

\* setExclusive(group, always_one_active) on a box that is in no group yet
\* (as __init__ calls it).  The set gets a new member: its iteration order is
\* any order of the members.
SetExclusive(c, g, a) ==
    /\ exclusive_group[c] = NoGroup
    /\ \E order \in Orderings(Range(exclusives[g]) \cup {c}) :
          exclusives' = [exclusives EXCEPT ![g] = order]
    /\ connected' = [connected EXCEPT ![c] = TRUE]
    /\ exclusive_group' = [exclusive_group EXCEPT ![c] = g]
    /\ always_one_active' =
          [i \in Boxes |-> IF i \in Range(exclusives[g]) \cup {c} THEN a
                           ELSE always_one_active[i]]
    /\ lastClicked' = 0
    /\ preClick' = checked
    /\ UNCHANGED checked
    /\ UNCHANGED exclRest

\* setCheckState from the program (RowLayout.addCheckbox, setStates): no click.
SetCheckState(c, b) ==
    /\ checked[c] # b
    /\ checked' = [checked EXCEPT ![c] = b]
    /\ lastClicked' = 0
    /\ preClick' = checked'
    /\ UNCHANGED <<exclusive_group, always_one_active, exclusives, connected>>
    /\ UNCHANGED exclRest

\* A plausible slip: the loop gives the others the state of the clicked box.
CheckExclusiveSameState(self, chk) ==
    IF exclusive_group[self] = NoGroup THEN chk
    ELSE IF ~chk[self] /\ ~always_one_active[self] THEN chk
    ELSE IF ~chk[self] /\ always_one_active[self]
         THEN [chk EXCEPT ![EnumNext(exclusives[exclusive_group[self]], 0, self).value] = TRUE]
    ELSE [i \in Boxes |->
            IF i \in Range(exclusives[exclusive_group[self]]) /\ i # self
            THEN chk[self] ELSE chk[i]]

\* checkExclusive on box self, the boxes' states being chk: the states it leaves.
CheckExclusive(self, chk) ==
    IF exclusive_group[self] = NoGroup THEN chk
    ELSE IF ~chk[self] /\ ~always_one_active[self] THEN chk
    ELSE IF ~chk[self] /\ always_one_active[self]
         THEN [chk EXCEPT ![EnumNext(exclusives[exclusive_group[self]], 0, self).value] = TRUE]
    ELSE [i \in Boxes |->
            IF i \in Range(exclusives[exclusive_group[self]]) /\ i # self
            THEN ~chk[self] ELSE chk[i]]

\* A click on box c: the toolkit toggles it, then emits clicked.
Click(c) ==
    /\ LET toggled == [checked EXCEPT ![c] = ~checked[c]] IN
          checked' = IF connected[c] THEN CheckExclusive(c, toggled) ELSE toggled
    /\ lastClicked' = c
    /\ preClick' = checked
    /\ UNCHANGED <<exclusive_group, always_one_active, exclusives, connected>>
    /\ UNCHANGED exclRest

NextExcl ==
    \/ \E c \in Boxes, g \in Groups, a \in BOOLEAN : SetExclusive(c, g, a)
    \/ \E c \in Boxes, b \in BOOLEAN : SetCheckState(c, b)
    \/ \E c \in Boxes : Click(c)

\* ------------------------------------------------------------------------
\* SystrayMixin
\* ------------------------------------------------------------------------
\* SystrayMixin.__init__ in the first run: create_tray_icon shows the tray icon
\* (visible when the desktop has a system tray), the settings store is new.
TrayInit ==
    /\ trayVisible \in BOOLEAN
    /\ windowVisible = TRUE
    /\ trayFlag = PyNone
    /\ messages = 0
    /\ running = TRUE
    /\ quitTriggered = FALSE
    /\ closeState = "none"
    /\ closes = 0
    /\ trayCloses = 0
    /\ sessions = 1

\* The same with the tray icon visible: the component at rest.
TrayIdle ==
    /\ trayVisible = TRUE
    /\ windowVisible = TRUE
    /\ trayFlag = PyNone
    /\ messages = 0
    /\ running = TRUE
    /\ quitTriggered = FALSE
    /\ closeState = "none"
    /\ closes = 0
    /\ trayCloses = 0
    /\ sessions = 1

\* A plausible slip: the information box is displayed whatever the settings say.
ShowsQuitMessageAlways(flag) == TRUE

\* closeEvent displays the information box: `not settings.value(...)`.
ShowsQuitMessage(flag) == ~Truthy(flag)

\* A plausible slip: the test of the tray icon is inverted.
MinimisesToTrayInverted == ~trayVisible

\* closeEvent takes its first branch: `if self.trayicon.isVisible()`.
MinimisesToTray == trayVisible

\* closeEvent(event).  With the tray icon visible: the box on the first time,
\* hide(), event.ignore().  Without: super().closeEvent() is called with no
\* event and raises TypeError before self.quit(); the event stays accepted and
\* the toolkit closes the window.
TrayCloseEvent ==
    /\ running
    /\ closes < MaxCloses
    /\ closes' = closes + 1
    /\ IF MinimisesToTray
       THEN /\ IF ShowsQuitMessage(trayFlag)
               THEN /\ messages' = messages + 1
                    /\ trayFlag' = PyBool(TRUE)
               ELSE UNCHANGED <<messages, trayFlag>>
            /\ windowVisible' = FALSE
            /\ closeState' = "ignored"
            /\ trayCloses' = trayCloses + 1
       ELSE /\ closeState' = "TypeError"
            /\ windowVisible' = FALSE
            /\ UNCHANGED <<messages, trayFlag, trayCloses>>
    /\ UNCHANGED <<trayVisible, running, quitTriggered, sessions>>
    /\ UNCHANGED trayRest

\* iconActivated(Trigger or DoubleClick): restore(), that is show() and
\* activateWindow().
IconActivated ==
    /\ running
    /\ trayVisible
    /\ ~windowVisible
    /\ windowVisible' = TRUE
    /\ closeState' = "none"
    /\ UNCHANGED <<trayVisible, trayFlag, messages, running, quitTriggered, closes,
                   trayCloses, sessions>>
    /\ UNCHANGED trayRest

\* The tray menu's Quit action: quit(), that is mainapp.quit().
QuitAction ==
    /\ running
    /\ trayVisible
    /\ running' = FALSE
    /\ quitTriggered' = TRUE
    /\ closeState' = "none"
    /\ UNCHANGED <<trayVisible, windowVisible, trayFlag, messages, closes, trayCloses,
                   sessions>>
    /\ UNCHANGED trayRest

\* The application is started again on the same settings store.
TrayRestart ==
    /\ sessions < MaxSessions
    /\ sessions' = sessions + 1
    /\ trayVisible' \in BOOLEAN
    /\ windowVisible' = TRUE
    /\ trayFlag' = Stored(trayFlag)
    /\ running' = TRUE
    /\ quitTriggered' = FALSE
    /\ closeState' = "none"
    /\ UNCHANGED <<messages, closes, trayCloses>>
    /\ UNCHANGED trayRest

NextTray ==
    \/ TrayCloseEvent
    \/ IconActivated
    \/ QuitAction
    \/ TrayRestart

\* ------------------------------------------------------------------------
\* RowLayout
\* ------------------------------------------------------------------------
\* The kinds of item a row creates; the tracking list of a kind is tracked[kind]
\* (labels, fields, sliders, spacers, buttons, comboboxes, toolbuttons,
\* checkboxes, separators).
Kinds == {"label", "field", "slider", "spacer", "button", "combobox", "toolbutton",
          "checkbox", "separator"}
ValueKinds == {"field", "slider", "combobox", "checkbox"}

Empty == <<>>
TextA == <<"a">>
TextB == <<"b">>

NoData == [mode |-> "none", names |-> <<>>, field |-> <<>>, sliders |-> <<>>,
           combobox |-> <<>>, checkbox |-> <<>>]

\* RowLayout.__init__
RowInit ==
    /\ widgets = <<>>
    /\ tracked = [k \in Kinds |-> <<>>]
    /\ rowOp = "none"
    /\ rowArg = PyNone
    /\ data = NoData
    /\ snapshot = <<>>
    /\ raised = "none"

\* The value a new item of the kind holds when add* is called with its defaults.
DefaultValue(kind) ==
    CASE kind = "field" -> PyStr(Empty)
      [] kind = "label" -> PyStr(Empty)
      [] kind = "slider" -> PyInt(0)
      [] kind = "combobox" -> PyInt(-1)
      [] kind = "checkbox" -> PyBool(FALSE)
      [] OTHER -> PyNone

\* addLabel, addSpacer, addField, addSlider, addCombobox, addToolbutton,
\* addCheckbox, addButton, addSeparator: create the item, set it up, append it to
\* the list of its kind.  A widget's objectName is its number; calls is the
\* number of calls an item got from the last operation, none here.
Add(kind, value, items) ==
    /\ Len(widgets) < MaxWidgets
    /\ widgets' = Append([i \in DOMAIN widgets |-> [widgets[i] EXCEPT !.calls = 0]],
          [kind |-> kind, hidden |-> FALSE, enabled |-> TRUE, tip |-> Empty,
           calls |-> 0, value |-> value, items |-> items])
    /\ tracked' = [tracked EXCEPT ![kind] = Append(@, Len(widgets) + 1)]
    /\ rowOp' = "add"
    /\ rowArg' = PyNone
    /\ raised' = "none"
    /\ UNCHANGED <<data, snapshot>>
    /\ UNCHANGED rowRest

\* A plausible slip: the list of connectCheckboxState, which leaves out the
\* checkboxes and the separators.
BulkTargetsOfConnect ==
    tracked["label"] \o tracked["field"] \o tracked["slider"] \o tracked["combobox"]
        \o tracked["toolbutton"] \o tracked["button"]

\* The list hide, show, setToolTip and setEnabledChildren loop over.
BulkTargets ==
    tracked["label"] \o tracked["field"] \o tracked["slider"] \o tracked["combobox"]
        \o tracked["toolbutton"] \o tracked["checkbox"] \o tracked["separator"]
        \o tracked["button"]

\* One call of widget.hide(), show(), setToolTip(arg) or setEnabled(arg).
Touch(w, op, arg) ==
    CASE op = "hide" -> [w EXCEPT !.hidden = TRUE, !.calls = @ + 1]
      [] op = "show" -> [w EXCEPT !.hidden = FALSE, !.calls = @ + 1]
      [] op = "setToolTip" -> [w EXCEPT !.tip = arg.s, !.calls = @ + 1]
      [] op = "setEnabledChildren" -> [w EXCEPT !.enabled = arg.b, !.calls = @ + 1]

RECURSIVE ApplyTo(_, _, _, _)
ApplyTo(ws, targets, op, arg) ==
    IF targets = <<>> THEN ws
    ELSE ApplyTo([ws EXCEPT ![Head(targets)] = Touch(@, op, arg)], Tail(targets), op, arg)

\* hide(), show(), setToolTip(tip), setEnabledChildren(state); calls counts the
\* calls each item gets from this operation.
Bulk(op, arg) ==
    /\ widgets' = ApplyTo([i \in DOMAIN widgets |-> [widgets[i] EXCEPT !.calls = 0]],
                          BulkTargets, op, arg)
    /\ rowOp' = op
    /\ rowArg' = arg
    /\ raised' = "none"
    /\ UNCHANGED <<tracked, data, snapshot>>
    /\ UNCHANGED rowRest

\* QComboBox.currentText() and findText(text).
CurrentText(w) ==
    IF w.value.n \in 0..(Len(w.items) - 1) THEN w.items[w.value.n + 1] ELSE Empty

FindText(items, text) ==
    IF \E k \in 1..Len(items) : items[k] = text
    THEN (CHOOSE k \in 1..Len(items) :
             items[k] = text /\ \A j \in 1..(k - 1) : items[j] # text) - 1
    ELSE -1

\* What getValues reads from a widget: text(), value(), currentText(),
\* bool(checkState()).
Saved(w) ==
    CASE w.kind = "field" -> w.value
      [] w.kind = "slider" -> w.value
      [] w.kind = "combobox" -> PyStr(CurrentText(w))
      [] w.kind = "checkbox" -> PyBool(w.value.b)

\* The values the user can give a widget.
ValuesOf(w) ==
    CASE w.kind = "field" -> {PyStr(Empty), PyStr(TextA)}
      [] w.kind = "slider" -> {PyInt(0), PyInt(5)}
      [] w.kind = "combobox" -> {PyInt(k) : k \in 0..(Len(w.items) - 1)}
      [] w.kind = "checkbox" -> {PyBool(FALSE), PyBool(TRUE)}
      [] OTHER -> {}

\* The user edits a field, moves a slider, picks an item, toggles a checkbox.
Edit(i, v) ==
    /\ widgets[i].value # v
    /\ widgets' = [widgets EXCEPT ![i].value = v]
    /\ rowOp' = "edit"
    /\ rowArg' = PyNone
    /\ raised' = "none"
    /\ UNCHANGED <<tracked, data, snapshot>>
    /\ UNCHANGED rowRest

SavedList(kind) == [k \in 1..Len(tracked[kind]) |-> Saved(widgets[tracked[kind][k]])]

\* getValues(by_objectnames).  By names: a dict objectName -> value.  By order:
\* the loop over the sliders reads the local `checkbox` before any assignment
\* to it, which raises UnboundLocalError.
GetValues(byNames) ==
    /\ snapshot' = [i \in DOMAIN widgets |-> widgets[i].value]
    /\ rowOp' = IF byNames THEN "getValues(names)" ELSE "getValues(order)"
    /\ rowArg' = PyNone
    /\ IF byNames
       THEN /\ data' = [NoData EXCEPT
                  !.mode = "names",
                  !.names = [i \in {j \in DOMAIN widgets : widgets[j].kind \in ValueKinds}
                                |-> Saved(widgets[i])]]
            /\ raised' = "none"
       ELSE IF tracked["slider"] # <<>>
            THEN /\ raised' = "UnboundLocalError"
                 /\ data' = data
            ELSE /\ data' = [NoData EXCEPT
                       !.mode = "order",
                       !.field = SavedList("field"),
                       !.combobox = SavedList("combobox"),
                       !.checkbox = SavedList("checkbox")]
                 /\ raised' = "none"
    /\ UNCHANGED <<widgets, tracked>>
    /\ UNCHANGED rowRest

\* values.get(name)
Get(d, name) == IF name \in DOMAIN d THEN d[name] ELSE PyNone

\* One loop of restoreValues by names over the list of a kind: a widget whose
\* saved value is true in Python's sense is set from it.
RECURSIVE RestoreNamed(_, _, _)
RestoreNamed(ws, targets, values) ==
    IF targets = <<>> THEN ws
    ELSE LET i == Head(targets)
             v == Get(values, i)
             w == ws[i]
             set == CASE w.kind = "field" -> v
                      [] w.kind = "combobox" -> PyInt(FindText(w.items, v.s))
                      [] w.kind = "checkbox" -> PyBool(Truthy(v))
         IN RestoreNamed(IF Truthy(v) THEN [ws EXCEPT ![i].value = set] ELSE ws,
                         Tail(targets), values)

\* restoreValues(values, by_objectnames=True): the fields, then the sliders,
\* where slider.setCheckState raises AttributeError, then the comboboxes and
\* the checkboxes.
RestoreByNames(values) ==
    LET ws1 == RestoreNamed(widgets, tracked["field"], values) IN
    IF \E k \in 1..Len(tracked["slider"]) : Truthy(Get(values, tracked["slider"][k]))
    THEN [ws |-> ws1, raised |-> "AttributeError"]
    ELSE [ws |-> RestoreNamed(RestoreNamed(ws1, tracked["combobox"], values),
                              tracked["checkbox"], values),
          raised |-> "none"]

\* One loop of restoreValues by order over the list of a kind, up to the first
\* widget that has no saved entry.
RECURSIVE RestoreOrdered(_, _, _, _)
RestoreOrdered(ws, targets, saved, k) ==
    IF k > Len(targets) \/ k > Len(saved) THEN ws
    ELSE LET i == targets[k]
             set == IF ws[i].kind = "checkbox" THEN PyBool(Truthy(saved[k])) ELSE saved[k]
         IN RestoreOrdered([ws EXCEPT ![i].value = set], targets, saved, k + 1)

\* restoreValues(values): the fields; the sliders, where slider.setCheckState
\* raises AttributeError; the comboboxes, where setCurrentIndex is given the
\* saved text and raises TypeError; the checkboxes.  A list shorter than the
\* widgets of its kind raises IndexError.
RestoreByOrder(values) ==
    LET ws1 == RestoreOrdered(widgets, tracked["field"], values.field, 1) IN
    IF Len(tracked["field"]) > Len(values.field)
    THEN [ws |-> ws1, raised |-> "IndexError"]
    ELSE IF tracked["slider"] # <<>>
    THEN [ws |-> ws1, raised |-> "AttributeError"]
    ELSE IF tracked["combobox"] # <<>>
    THEN [ws |-> ws1,
          raised |-> IF values.combobox = <<>> THEN "IndexError" ELSE "TypeError"]
    ELSE [ws |-> RestoreOrdered(ws1, tracked["checkbox"], values.checkbox, 1),
          raised |-> IF Len(tracked["checkbox"]) > Len(values.checkbox)
                     THEN "IndexError" ELSE "none"]

\* restoreValues(values, by_objectnames) with the values getValues returned.
RestoreValues(byNames) ==
    /\ data.mode = IF byNames THEN "names" ELSE "order"
    /\ LET r == IF byNames THEN RestoreByNames(data.names) ELSE RestoreByOrder(data) IN
          /\ widgets' = r.ws
          /\ raised' = r.raised
    /\ rowOp' = IF byNames THEN "restoreValues(names)" ELSE "restoreValues(order)"
    /\ rowArg' = PyNone
    /\ UNCHANGED <<tracked, data, snapshot>>
    /\ UNCHANGED rowRest

\* The row as a builder with bulk operations.
NextRow ==
    \/ \E kind \in Kinds : Add(kind, DefaultValue(kind), <<>>)
    \/ Bulk("hide", PyNone)
    \/ Bulk("show", PyNone)
    \/ \E tip \in {TextA} : Bulk("setToolTip", PyStr(tip))
    \/ \E state \in BOOLEAN : Bulk("setEnabledChildren", PyBool(state))

ItemLists == {<<TextA, TextB>>, <<Empty, TextA>>}

\* The row as a form whose values are saved and restored.
NextRowValues ==
    \/ \E text \in {Empty, TextA} : Add("field", PyStr(text), <<>>)
    \/ \E value \in {0, 5} : Add("slider", PyInt(value), <<>>)
    \/ \E items \in ItemLists : Add("combobox", PyInt(0), items)
    \/ \E state \in BOOLEAN : Add("checkbox", PyBool(state), <<>>)
    \/ \E i \in DOMAIN widgets : \E v \in ValuesOf(widgets[i]) : Edit(i, v)
    \/ \E byNames \in BOOLEAN : GetValues(byNames)
    \/ \E byNames \in BOOLEAN : RestoreValues(byNames)

\* ------------------------------------------------------------------------
\* CollapsibleGroupBox
\* ------------------------------------------------------------------------
\* str.replace(old, new): every occurrence of old, left to right, without
\* overlap; an empty old matches before every character and at the end.
RECURSIVE Replace(_, _, _)
Replace(s, old, new) ==
    IF old = <<>>
    THEN IF s = <<>> THEN new ELSE new \o <<Head(s)>> \o Replace(Tail(s), old, new)
    ELSE IF Len(s) < Len(old) THEN s
    ELSE IF SubSeq(s, 1, Len(old)) = old
         THEN new \o Replace(SubSeq(s, Len(old) + 1, Len(s)), old, new)
    ELSE <<Head(s)>> \o Replace(Tail(s), old, new)

\* s[:n]
Slice(s, n) == SubSeq(s, 1, IF n < Len(s) THEN n ELSE Len(s))

\* prefix[collapsed]
PrefixOf(prefix, collapsed) == IF collapsed THEN prefix.t ELSE prefix.f

\* The default prefix (an arrow and two spaces for each state), a prefix whose
\* texts differ in length, and a prefix for the collapsed state only.
DefaultPrefix == [t |-> <<">", " ", " ">>, f |-> <<"v", " ", " ">>]
Prefixes == {DefaultPrefix,
             [t |-> <<">", ">", " ">>, f |-> <<"v", " ">>],
             [t |-> <<"+">>, f |-> <<>>]}
Titles == {<<"T">>, <<"a", "b">>, <<"O", "p", "t", "s">>}

\* The title on_toggle(collapsed) sets: the first len(prefix[not collapsed])
\* characters of the title, replaced in the title by prefix[collapsed].
ToggledTitle(title, prefix, collapsed) ==
    Replace(title, Slice(title, Len(PrefixOf(prefix, ~collapsed))),
            PrefixOf(prefix, collapsed))

BoolText(b) == IF b THEN "True" ELSE "False"

\* CollapsibleGroupBox(title, collapsed, prefix): the title gets its prefix,
\* and a box created collapsed calls on_toggle(collapsed).
CgbConstructed(title, collapsed, prefix) ==
    /\ cgbOrig = title
    /\ cgbPrefix = prefix
    /\ cgbCollapsed = collapsed
    /\ cgbFlat = collapsed
    /\ cgbTitle = IF collapsed
                  THEN ToggledTitle(PrefixOf(prefix, collapsed) \o title, prefix, collapsed)
                  ELSE PrefixOf(prefix, collapsed) \o title
    /\ cgbLast = IF collapsed THEN BoolText(collapsed) ELSE "none"

CgbInit ==
    \E title \in Titles, collapsed \in BOOLEAN, prefix \in Prefixes :
        CgbConstructed(title, collapsed, prefix)

CgbIdle == CgbConstructed(<<"T">>, FALSE, DefaultPrefix)

\* on_toggle(collapsed): the animations of the heights are started (they keep
\* no state here), then the title, the flat look and the attribute are set.
OnToggle(collapsed) ==
    /\ Len(cgbTitle) <= MaxTitleLen
    /\ cgbTitle' = ToggledTitle(cgbTitle, cgbPrefix, collapsed)
    /\ cgbFlat' = collapsed
    /\ cgbCollapsed' = collapsed
    /\ cgbLast' = BoolText(collapsed)
    /\ UNCHANGED <<cgbOrig, cgbPrefix>>
    /\ UNCHANGED cgbRest

\* mouseReleaseEvent with the hit test giving the sub-control the handler
\* compares with: on_toggle(not self.collapsed).
MouseReleaseEvent == OnToggle(~cgbCollapsed)

NextCgb ==
    \/ \E collapsed \in BOOLEAN : OnToggle(collapsed)
    \/ MouseReleaseEvent

\* ------------------------------------------------------------------------
\* BetterLineEdit: the step of wheel and Up/Down key press events
\* ------------------------------------------------------------------------
\* Time is counted in whole seconds.  Steps are counted in tenths, so that the
\* multiplier 0.1 is the integer 1.  The text is taken to hold a number: the
\* events add their step to it and setText formats the sum.
Modifiers == {"none", "ctrl", "shift", "ctrl+shift"}
Keys == {"Up", "Down"}
Validators == {"int", "double", "none"}
AcceleratedSeconds == 3
NoEvent == [kind |-> "none", sign |-> 0, modifiers |-> "none", step |-> 0, elapsed |-> 0]

RECURSIVE Pow10(_)
Pow10(power) == IF power = 0 THEN 1 ELSE 10 * Pow10(power - 1)

\* multiplier, in tenths: event.modifiers() is compared with one flag alone.
Multiplier(modifiers) ==
    IF modifiers = "ctrl" THEN 1 ELSE IF modifiers = "shift" THEN 100 ELSE 10

Numeric == ble.validator \in {"int", "double"}

\* _event: the step added to float(text()), in tenths; without a numeric
\* validator (and with _activate_undo off) the text is left alone.
StepOf(sign, modifiers, rate) ==
    IF Numeric THEN sign * ble._singlestep * Multiplier(modifiers) * rate ELSE 0

\* __init__ followed by the setters called while the form is built.
BleBuilt(validator, singlestep, accelerated) ==
    ble = [validator |-> validator, _singlestep |-> singlestep,
           _accelerated |-> accelerated, _accelerated_rate |-> 1,
           _accelerated_timer |-> 0, now |-> 0, held |-> "none", holdStart |-> 0,
           event |-> NoEvent]

BleInit ==
    \E validator \in Validators, singlestep \in 1..MaxSingleStep, accelerated \in BOOLEAN :
        BleBuilt(validator, singlestep, accelerated)

BleIdle == BleBuilt("none", 1, TRUE)

\* wheelEvent: _event with the rate as the last key press left it.
WheelEvent(sign, modifiers) ==
    /\ ble' = [ble EXCEPT
                 !.event = [kind |-> "wheel", sign |-> sign, modifiers |-> modifiers,
                            step |-> StepOf(sign, modifiers, ble._accelerated_rate),
                            elapsed |-> 0]]
    /\ UNCHANGED bleRest

\* keyPressEvent for Up or Down.  A fresh press begins a hold; auto-repeat
\* events come while the key stays down.
KeyPressEvent(key, modifiers, isAutoRepeat) ==
    /\ IF isAutoRepeat THEN ble.held = key ELSE ble.held = "none"
    /\ LET sign == IF key = "Up" THEN 1 ELSE -1
           elapsed == ble.now - ble._accelerated_timer
           power == elapsed \div AcceleratedSeconds
           rate == IF ble._accelerated /\ Numeric
                   THEN IF isAutoRepeat THEN Pow10(power) ELSE 1
                   ELSE ble._accelerated_rate
       IN ble' = [ble EXCEPT
                    !._accelerated_rate = rate,
                    !._accelerated_timer =
                        IF ble._accelerated /\ Numeric /\ ~isAutoRepeat THEN ble.now ELSE @,
                    !.held = key,
                    !.holdStart = IF isAutoRepeat THEN @ ELSE ble.now,
                    !.event = [kind |-> IF isAutoRepeat THEN "repeat" ELSE "press",
                               sign |-> sign, modifiers |-> modifiers,
                               step |-> StepOf(sign, modifiers, rate),
                               elapsed |-> IF isAutoRepeat
                                           THEN ble.now - ble.holdStart ELSE 0]]
    /\ UNCHANGED bleRest

\* The held key is released: no handler of the widget runs.
KeyRelease ==
    /\ ble.held # "none"
    /\ ble' = [ble EXCEPT !.held = "none"]
    /\ UNCHANGED bleRest

\* A second passes.
Tick ==
    /\ ble.now < MaxClock
    /\ ble' = [ble EXCEPT !.now = @ + 1]
    /\ UNCHANGED bleRest

NextBle ==
    \/ \E sign \in {-1, 1}, modifiers \in Modifiers : WheelEvent(sign, modifiers)
    \/ \E key \in Keys, modifiers \in Modifiers, isAutoRepeat \in BOOLEAN :
          KeyPressEvent(key, modifiers, isAutoRepeat)
    \/ KeyRelease
    \/ Tick

\* ------------------------------------------------------------------------
\* BaseMixin
\* ------------------------------------------------------------------------
Positions == {"p1", "p2"}
Sizes == {"s1", "s2"}
ScreenPos == "p0"
ScreenSize == "screen"
NoGeometry == [valid |-> FALSE, pos |-> "None", size |-> "None",
               maximized |-> FALSE, fullScreen |-> FALSE]
EmptyStore == [geometry |-> NoGeometry, pos |-> "None", size |-> "None",
               maximized |-> PyNone, fullScreen |-> PyNone]

\* pos() and size(): those of the screen while the window is maximised or full
\* screen.
Pos == IF winMaximized \/ winFullScreen THEN ScreenPos ELSE winPos
Size == IF winMaximized \/ winFullScreen THEN ScreenSize ELSE winSize

\* The window a run of the application creates, before load_settings.
NewWindow == [pos |-> "p1", size |-> "s1", maximized |-> FALSE, fullScreen |-> FALSE]

\* load_settings on window w with the values of the store: restoreGeometry
\* (the saved geometry and window state), move, resize, then showMaximized and
\* showFullScreen as string2bool of the stored flags says.  The state of
\* toolbars and docks (saveState) is not part of the window here.
Loaded(w, values) ==
    LET g == IF values.geometry.valid
             THEN [pos |-> values.geometry.pos, size |-> values.geometry.size,
                   maximized |-> values.geometry.maximized,
                   fullScreen |-> values.geometry.fullScreen]
             ELSE w
        moved == [g EXCEPT !.pos = IF values.pos = "None" THEN @ ELSE values.pos,
                           !.size = IF values.size = "None" THEN @ ELSE values.size]
        max == IF Truthy(String2Bool(values.maximized, TRUE))
               THEN [moved EXCEPT !.maximized = TRUE, !.fullScreen = FALSE]
               ELSE moved
    IN IF Truthy(String2Bool(values.fullScreen, TRUE))
       THEN [max EXCEPT !.maximized = FALSE, !.fullScreen = TRUE]
       ELSE max

\* The store as a later run reads it.
StoredGroup(values) ==
    [values EXCEPT !.maximized = Stored(@), !.fullScreen = Stored(@)]

\* The first run: a new window, load_settings on a new store.
BaseInit ==
    /\ winOpen = TRUE
    /\ winPos = Loaded(NewWindow, EmptyStore).pos
    /\ winSize = Loaded(NewWindow, EmptyStore).size
    /\ winMaximized = Loaded(NewWindow, EmptyStore).maximized
    /\ winFullScreen = Loaded(NewWindow, EmptyStore).fullScreen
    /\ store = EmptyStore
    /\ baseOp = "load_settings"
    /\ atClose = [closed |-> FALSE, maximized |-> FALSE, fullScreen |-> FALSE]
    /\ normalClose = [closed |-> FALSE, pos |-> "None", size |-> "None"]

\* A plausible slip: position and size are saved in every state of the window.
SavesNormalGeometryAlways == TRUE

\* closeEvent saves position and size:
\* `if not self.isMaximized() and not self.isFullScreen()`.
SavesNormalGeometry == ~winMaximized /\ ~winFullScreen

\* closeEvent(event): geometry, position and size, the two flags.  The event
\* stays accepted: the window closes.
BaseCloseEvent ==
    /\ winOpen
    /\ store' = [geometry |-> [valid |-> TRUE, pos |-> winPos, size |-> winSize,
                               maximized |-> winMaximized, fullScreen |-> winFullScreen],
                 pos |-> IF SavesNormalGeometry THEN Pos ELSE store.pos,
                 size |-> IF SavesNormalGeometry THEN Size ELSE store.size,
                 maximized |-> PyBool(winMaximized),
                 fullScreen |-> PyBool(winFullScreen)]
    /\ winOpen' = FALSE
    /\ baseOp' = "closeEvent"
    /\ atClose' = [closed |-> TRUE, maximized |-> winMaximized,
                   fullScreen |-> winFullScreen]
    /\ normalClose' = IF ~winMaximized /\ ~winFullScreen
                      THEN [closed |-> TRUE, pos |-> winPos, size |-> winSize]
                      ELSE normalClose
    /\ UNCHANGED <<winPos, winSize, winMaximized, winFullScreen>>
    /\ UNCHANGED baseRest

\* A new window calls load_settings on the store: in a later run of the
\* application (the flags are read back as text), or in the same run.
LoadSettings(laterRun) ==
    /\ ~winOpen
    /\ LET values == IF laterRun THEN StoredGroup(store) ELSE store
           w == Loaded(NewWindow, values)
       IN /\ store' = values
          /\ winPos' = w.pos
          /\ winSize' = w.size
          /\ winMaximized' = w.maximized
          /\ winFullScreen' = w.fullScreen
    /\ winOpen' = TRUE
    /\ baseOp' = "load_settings"
    /\ UNCHANGED <<atClose, normalClose>>
    /\ UNCHANGED baseRest

\* The closed window is shown again as it was.
Reshow ==
    /\ ~winOpen
    /\ winOpen' = TRUE
    /\ baseOp' = "show"
    /\ UNCHANGED <<winPos, winSize, winMaximized, winFullScreen, store, atClose,
                   normalClose>>
    /\ UNCHANGED baseRest

\* The user maximises the window, makes it full screen, or brings it back to
\* normal: showMaximized(), showFullScreen(), showNormal().
ShowWindow(maximized, fullScreen) ==
    /\ winOpen
    /\ ~(maximized /\ fullScreen)
    /\ <<winMaximized, winFullScreen>> # <<maximized, fullScreen>>
    /\ winMaximized' = maximized
    /\ winFullScreen' = fullScreen
    /\ baseOp' = "user"
    /\ UNCHANGED <<winOpen, winPos, winSize, store, atClose, normalClose>>
    /\ UNCHANGED baseRest

\* The user moves or resizes the window in its normal state.
MoveResize(pos, size) ==
    /\ winOpen
    /\ ~winMaximized /\ ~winFullScreen
    /\ <<winPos, winSize>> # <<pos, size>>
    /\ winPos' = pos
    /\ winSize' = size
    /\ baseOp' = "user"
    /\ UNCHANGED <<winOpen, winMaximized, winFullScreen, store, atClose, normalClose>>
    /\ UNCHANGED baseRest

NextBase ==
    \/ BaseCloseEvent
    \/ \E laterRun \in BOOLEAN : LoadSettings(laterRun)
    \/ Reshow
    \/ \E maximized, fullScreen \in BOOLEAN : ShowWindow(maximized, fullScreen)
    \/ \E pos \in Positions, size \in Sizes : MoveResize(pos, size)

\* ------------------------------------------------------------------------
\* Specifications: one component each, the others as constructed
\* ------------------------------------------------------------------------
\* The helpers outside qt.py, as constructed.
LibIdle == EnumIdle /\ MemoIdle /\ PauseIdle
QtIdle == ExclInit /\ TrayIdle /\ RowInit /\ S2bInit /\ CgbIdle /\ BaseInit

InitExcl == ExclInit /\ TrayIdle /\ RowInit /\ S2bInit /\ CgbIdle /\ BaseInit /\ LibIdle /\ BleIdle
SpecExcl == InitExcl /\ [][NextExcl]_vars

InitTray == TrayInit /\ ExclInit /\ RowInit /\ S2bInit /\ CgbIdle /\ BaseInit /\ LibIdle /\ BleIdle
SpecTray == InitTray /\ [][NextTray]_vars

InitRow == RowInit /\ ExclInit /\ TrayIdle /\ S2bInit /\ CgbIdle /\ BaseInit /\ LibIdle /\ BleIdle
SpecRow == InitRow /\ [][NextRow]_vars
SpecRowValues == InitRow /\ [][NextRowValues]_vars

InitS2b == S2bInit /\ ExclInit /\ TrayIdle /\ RowInit /\ CgbIdle /\ BaseInit /\ LibIdle /\ BleIdle
SpecS2b == InitS2b /\ [][NextS2b]_vars

InitCgb == CgbInit /\ ExclInit /\ TrayIdle /\ RowInit /\ S2bInit /\ BaseInit /\ LibIdle /\ BleIdle
SpecCgb == InitCgb /\ [][NextCgb]_vars

InitBase == BaseInit /\ ExclInit /\ TrayIdle /\ RowInit /\ S2bInit /\ CgbIdle /\ LibIdle /\ BleIdle
SpecBase == InitBase /\ [][NextBase]_vars

InitEnum == EnumInit /\ QtIdle /\ MemoIdle /\ PauseIdle /\ BleIdle
SpecEnum == InitEnum /\ [][NextEnum]_vars

InitMemo == MemoInit /\ QtIdle /\ EnumIdle /\ PauseIdle /\ BleIdle
SpecMemo == InitMemo /\ [][NextMemo]_vars

InitBle == BleInit /\ QtIdle /\ LibIdle
SpecBle == InitBle /\ [][NextBle]_vars

InitPause == PauseInit /\ QtIdle /\ EnumIdle /\ MemoIdle /\ BleIdle
SpecPause == InitPause /\ [][NextPause]_vars


\* ------------------------------------------------------------------------
\* Properties of ExclusiveCheckBox
\* ------------------------------------------------------------------------
Members(g) == Range(exclusives[g])
CheckedIn(chk, g) == {c \in Members(g) : chk[c]}

\* C1: in an exclusive group, a click that leaves the clicked box checked leaves
\* every other box of its group unchecked; and clicks keep a group that has at
\* most one checked member at no more than one.
C1_ClickKeepsExclusive ==
    lastClicked # 0 =>
        /\ (exclusive_group[lastClicked] # NoGroup /\ checked[lastClicked]) =>
              \A d \in Members(exclusive_group[lastClicked]) \ {lastClicked} : ~checked[d]
        /\ \A g \in Groups :
              Cardinality(CheckedIn(preClick, g)) <= 1 =>
                  Cardinality(CheckedIn(checked, g)) <= 1

\* C1 witness: a click checked a box of a group in which another box was checked.
C1_Witness ==
    /\ lastClicked # 0
    /\ exclusive_group[lastClicked] # NoGroup
    /\ checked[lastClicked]
    /\ \E d \in Members(exclusive_group[lastClicked]) \ {lastClicked} : preClick[d]

\* The member that follows c in the iteration order of its group, cyclically.
Successor(c) ==
    LET order == exclusives[exclusive_group[c]]
        i == CHOOSE k \in 1..Len(order) : order[k] = c
    IN order[(i % Len(order)) + 1]

\* C2: in a group with always_one_active, a click that unchecks the checked box
\* ends with the next member of the cycle checked (the box itself when alone),
\* and no click takes such a group from some member checked to none checked.
C2_AlwaysOneActive ==
    lastClicked # 0 =>
        /\ (/\ exclusive_group[lastClicked] # NoGroup
            /\ always_one_active[lastClicked]
            /\ preClick[lastClicked]) => checked[Successor(lastClicked)]
        /\ \A g \in Groups :
              (/\ \A m \in Members(g) : always_one_active[m]
               /\ CheckedIn(preClick, g) # {}) => CheckedIn(checked, g) # {}

\* C2 witness: the only checked box of an always-one group of several was
\* clicked, and another member is checked now.
C2_Witness ==
    /\ lastClicked # 0
    /\ exclusive_group[lastClicked] # NoGroup
    /\ always_one_active[lastClicked]
    /\ CheckedIn(preClick, exclusive_group[lastClicked]) = {lastClicked}
    /\ Cardinality(Members(exclusive_group[lastClicked])) >= 2
    /\ ~checked[lastClicked]
    /\ checked[Successor(lastClicked)]

\* ------------------------------------------------------------------------
\* Properties of SystrayMixin
\* ------------------------------------------------------------------------
\* C3: after a close event received with the tray icon visible the window is
\* hidden, the event is ignored and the application runs; the application
\* stops running only when the tray menu's Quit action is triggered.
C3_CloseMinimisesToTray ==
    /\ (closeState # "none" /\ trayVisible) =>
          (~windowVisible /\ closeState = "ignored" /\ running)
    /\ (trayVisible /\ ~running) => quitTriggered

\* C3 witness: a close event with the tray icon visible has just been handled.
C3_Witness == closeState = "ignored" /\ trayVisible /\ ~windowVisible /\ running

\* C4: the information box is displayed at most once over all close events on
\* one settings store: on the first close with a visible tray icon, which sets
\* 'tray_showed_quitmessage'.
C4_QuitMessageOnce ==
    /\ messages <= 1
    /\ (messages = 1) <=> Truthy(trayFlag)
    /\ (messages = 1) <=> (trayCloses >= 1)

\* C4 witness: several closes with a visible tray icon, in a later run than the
\* one that displayed the box.
C4_Witness == trayCloses >= 3 /\ sessions >= 2 /\ trayFlag.t = "str" /\ messages = 1

\* ------------------------------------------------------------------------
\* Properties of RowLayout
\* ------------------------------------------------------------------------
\* The numbers of the items of a kind, in creation order.
CreatedOf(kind) ==
    SelectSeq([i \in 1..Len(widgets) |-> i], LAMBDA i : widgets[i].kind = kind)

\* C5: every item the add* calls created is in the tracking list of its kind,
\* once and in creation order; a bulk operation has called every widget exactly
\* once with its argument, and no spacer.
C5_TrackedAndBulk ==
    /\ \A kind \in Kinds : tracked[kind] = CreatedOf(kind)
    /\ rowOp \in {"hide", "show", "setToolTip", "setEnabledChildren"} =>
          \A i \in DOMAIN widgets :
             LET w == widgets[i] IN
             IF w.kind = "spacer"
             THEN w.calls = 0 /\ ~w.hidden /\ w.enabled /\ w.tip = Empty
             ELSE /\ w.calls = 1
                  /\ rowOp = "hide" => w.hidden
                  /\ rowOp = "show" => ~w.hidden
                  /\ rowOp = "setToolTip" => w.tip = rowArg.s
                  /\ rowOp = "setEnabledChildren" => w.enabled = rowArg.b

\* C5 witness: a bulk operation on a row of a spacer, a checkbox and a separator.
C5_Witness ==
    /\ rowOp = "setEnabledChildren"
    /\ rowArg = PyBool(FALSE)
    /\ \E i, j, k \in DOMAIN widgets :
          /\ widgets[i].kind = "spacer"
          /\ widgets[j].kind = "checkbox" /\ ~widgets[j].enabled
          /\ widgets[k].kind = "separator" /\ ~widgets[k].enabled

\* C6: restoreValues(v, by_objectnames=True), v being what
\* getValues(by_objectnames=True) returned for the same widgets, ends without an
\* exception and with every widget at the value it had then.
C6_RestoreByNames ==
    (rowOp = "restoreValues(names)" /\ Len(snapshot) = Len(widgets)) =>
        /\ raised = "none"
        /\ \A i \in DOMAIN snapshot : widgets[i].value = snapshot[i]

\* C7: getValues() returns without an exception one entry per widget under the
\* key of its kind and changes no widget; restoreValues of what it returned
\* ends without an exception with every widget at the value it had then.
C7_GetRestoreByOrder ==
    /\ rowOp = "getValues(order)" =>
          /\ raised = "none"
          /\ Len(data.field) = Len(tracked["field"])
          /\ Len(data.sliders) = Len(tracked["slider"])
          /\ Len(data.combobox) = Len(tracked["combobox"])
          /\ Len(data.checkbox) = Len(tracked["checkbox"])
          /\ \A i \in DOMAIN widgets : widgets[i].value = snapshot[i]
    /\ (rowOp = "restoreValues(order)" /\ Len(snapshot) = Len(widgets)) =>
          /\ raised = "none"
          /\ \A i \in DOMAIN snapshot : widgets[i].value = snapshot[i]

C9_TitleFollowsState ==
    /\ cgbTitle = PrefixOf(cgbPrefix, cgbCollapsed) \o cgbOrig
    /\ cgbFlat = cgbCollapsed
    /\ cgbLast # "none" => cgbLast = BoolText(cgbCollapsed)

\* ------------------------------------------------------------------------
\* Properties of string2bool
\* ------------------------------------------------------------------------
\* C10: string2bool gives True for a text that capitalizes to 'True' and False
\* for one that capitalizes to 'False', strict or not; another text is returned
\* unchanged when not strict and gives False when strict; anything but a text
\* is returned unchanged.
C10_String2Bool ==
    s2bCall.called =>
        LET string == s2bCall.string
            result == s2bCall.result
        IN IF string.t # "str" THEN result = string
           ELSE IF Capitalize(string.s) = TrueText THEN result = PyBool(TRUE)
           ELSE IF Capitalize(string.s) = FalseText THEN result = PyBool(FALSE)
           ELSE IF s2bCall.strict THEN result = PyBool(FALSE)
           ELSE result = string

\* ------------------------------------------------------------------------
\* Properties of Enum
\* ------------------------------------------------------------------------
\* The element that follows x in the list, the first one after the last.
EnumSuccessor(list, x) ==
    LET i == CHOOSE k \in 1..Len(list) : list[k] = x
    IN list[(i % Len(list)) + 1]

\* C11: on an Enum over distinct elements, every call next(current) with
\* current in the list returns the element that follows current in the list,
\* the first one after the last, wherever earlier calls left the cycle.
C11_NextIsSuccessor ==
    (enum.call.called /\ enum.call.current \in Range(enum.enum_list)) =>
        /\ enum.call.kind = "value"
        /\ enum.call.value = EnumSuccessor(enum.enum_list, enum.call.current)

\* A call on the last element of a longer list, made with the cycle in the
\* middle of the list, has returned.
C11_Witness ==
    /\ enum.call.called
    /\ Len(enum.enum_list) >= 3
    /\ enum.call.current = enum.enum_list[Len(enum.enum_list)]
    /\ enum.call.prePos = 1
    /\ enum.call.kind = "value"
    /\ enum.call.value = enum.enum_list[1]

ExpectedRate(event) ==
    IF event.kind = "repeat" THEN Pow10(event.elapsed \div AcceleratedSeconds) ELSE 1

\* C13: on an accelerated numeric BetterLineEdit the step of every wheel event
\* and every Up/Down key press is sign * singlestep * multiplier * rate, where
\* the rate is 1 for wheel events and fresh presses and 10^floor(elapsed / 3 s)
\* for auto-repeats: the rate of an earlier hold is never carried over.
C13_StepIsAccelerated ==
    (ble.event.kind # "none" /\ ble._accelerated /\ Numeric) =>
        ble.event.step = ble.event.sign * ble._singlestep
                             * Multiplier(ble.event.modifiers) * ExpectedRate(ble.event)

\* ------------------------------------------------------------------------
\* Properties of pause_services and pause_processes
\* ------------------------------------------------------------------------
SuspendCommands == {"net stop", "pssuspend", "pkill -TSTP"}
ResumeCommands == {"net start", "pssuspend -r", "pkill -CONT"}

\* The targets of the issued commands of one sort, in the order of issue.
IssuedFor(commands) ==
    LET chosen == SelectSeq(pause.issued, LAMBDA c : c.command \in commands)
    IN [i \in 1..Len(chosen) |-> chosen[i].target]

\* The targets a suspend or stop command is due for.
Due ==
    IF pause.kind = "services" /\ ~(pause.platform = "win32" /\ pause.admin)
    THEN <<>> ELSE pause.targets

\* C14: once the with block is entered a suspend/stop command has been issued
\* for each target (none for services without administrator rights or off
\* Windows) and no resume before it; once the block is left, by completion or
\* by an exception of the body, a resume/start command has been issued for
\* exactly the targets suspended.
C14_ResumedWhenLeft ==
    /\ pause.pc # "call" => IssuedFor(SuspendCommands) = Due
    /\ pause.pc = "body" => IssuedFor(ResumeCommands) = <<>>
    /\ pause.pc \in {"left", "raised"} =>
          IssuedFor(ResumeCommands) = IssuedFor(SuspendCommands)
====
